---------------------------- MODULE Spec2Model ----------------------------
(***************************************************************************)
(* A model of chess-rs (src/src/board.rs, src/src/main.rs): the board, the  *)
(* per-piece move generators, move application and the short algebraic      *)
(* notation codec.                                                          *)
(*                                                                          *)
(* Representation choices:                                                  *)
(*  - Option<T> is a set: {} is None and {x} is Some(x).                    *)
(*  - Vec<T> is a sequence, in the order the code pushes.                   *)
(*  - HashMap<Location, Box<dyn Piece>> is a function whose DOMAIN is the   *)
(*    set of keys.                                                          *)
(*  - A &str is a sequence of one-character strings.                        *)
(*  - The twelve Unicode chess glyphs are written with ASCII stand-ins:     *)
(*    "K" "Q" "R" "B" "N" "P" for the white glyphs and "k" "q" "r" "b" "n"  *)
(*    "p" for the black ones.                                               *)
(*  - A function that can panic returns [ok |-> TRUE, val |-> v] or         *)
(*    [ok |-> FALSE, panic |-> message].                                    *)
(***************************************************************************)
EXTENDS Integers, Sequences, FiniteSets, TLC

VARIABLES
    pieces,        \* Board.pieces: the map Location -> Piece
    to_move,       \* Board.to_move
    pc,            \* where the caller stands: "new", "ready", "returned", "panicked"
    call,          \* the last operation that built or mutated the board, with its input
    prev_pieces,   \* Board.pieces as it was when that operation was entered
    prev_to_move,  \* Board.to_move as it was when that operation was entered
    obs,           \* the value returned by the last read-only operation, with its input
    panic,         \* the panic message once the program has panicked, "" before
    n_applied      \* how many apply_move calls have succeeded on this board

vars == <<pieces, to_move, pc, call, prev_pieces, prev_to_move, obs, panic, n_applied>>

---------------------------------------------------------------------------
(* Small helpers for the representation.                                   *)

The(S) == CHOOSE x \in S : TRUE

Ok(v) == [ok |-> TRUE, val |-> v]

Panic(msg) == [ok |-> FALSE, panic |-> msg]

\* str.find(c) / chars().nth(): the 0-based index of the first c in s, as an Option.
Find(s, c) ==
    IF \E i \in 1..Len(s) : s[i] = c
    THEN {(CHOOSE i \in 1..Len(s) : s[i] = c /\ \A j \in 1..(i - 1) : s[j] # c) - 1}
    ELSE {}

DIGITS == <<"0", "1", "2", "3", "4", "5", "6", "7", "8", "9">>

\* format!("{}", n) of an unsigned number: its decimal digits.
RECURSIVE ToDecimal(_)
ToDecimal(n) ==
    IF n < 10 THEN <<DIGITS[n + 1]>> ELSE ToDecimal(n \div 10) \o <<DIGITS[(n % 10) + 1]>>

\* str::parse::<u8>() of a one-character string: Some(value) for a digit.
ParseU8(s) == IF Len(s) = 1 THEN Find(DIGITS, s[1]) ELSE {}

---------------------------------------------------------------------------
(* Color, Kind, Location.                                                  *)

FILE_CHARS == <<"a", "b", "c", "d", "e", "f", "g", "h">>

Color == {"White", "Black"}

Kind == {"King", "Queen", "Rook", "Bishop", "Knight", "Pawn"}

kind_to_pgn(kind) ==
    CASE kind = "King" -> <<"K">>
      [] kind = "Queen" -> <<"Q">>
      [] kind = "Rook" -> <<"R">>
      [] kind = "Bishop" -> <<"B">>
      [] kind = "Knight" -> <<"N">>
      [] kind = "Pawn" -> <<>>

pgn_to_kind(pgn) ==
    CASE pgn = <<"K">> -> Ok("King")
      [] pgn = <<"Q">> -> Ok("Queen")
      [] pgn = <<"R">> -> Ok("Rook")
      [] pgn = <<"B">> -> Ok("Bishop")
      [] pgn = <<"N">> -> Ok("Knight")
      [] pgn = <<>> -> Ok("Pawn")
      [] OTHER -> Panic("Invalid piece kind")

Loc(r, f) == [rank |-> r, file |-> f]

\* Every Location the board can hold a piece at: rank and file in 0..7.
Locations == {Loc(r, f) : r \in 0..7, f \in 0..7}

\* An integer as an i8 holds it: two's complement, 8 bits.
I8(x) == ((x + 128) % 256) - 128

\* A move_relative that folds the result back onto the board instead of
\* giving None.
move_relative_wrapping(self, color, rank_shift, file_shift) ==
    LET new_rank == IF color = "White" THEN self.rank + rank_shift ELSE self.rank - rank_shift
        new_file == IF color = "White" THEN self.file + file_shift ELSE self.file - file_shift
    IN  {Loc(new_rank % 8, new_file % 8)}

\* Location::move_relative. `self.rank as i8` and the i8 sums keep their
\* width; for locations on the board and shifts in -7..7 the sums lie in
\* -7..14, where no build overflows.
move_relative(self, color, rank_shift, file_shift) ==
    LET rank_i8 == I8(self.rank)
        file_i8 == I8(self.file)
        new_rank == IF color = "White" THEN I8(rank_i8 + rank_shift)
                                       ELSE I8(rank_i8 - rank_shift)
        new_file == IF color = "White" THEN I8(file_i8 + file_shift)
                                       ELSE I8(file_i8 - file_shift)
    IN  IF new_rank < 0 \/ new_rank > 7 \/ new_file < 0 \/ new_file > 7
        THEN {}
        ELSE {Loc(new_rank, new_file)}

forward(self, color) == move_relative(self, color, 1, 0)

left(self, color) == move_relative(self, color, 0, -1)

right(self, color) == move_relative(self, color, 0, 1)

\* Location::pgn: the file letter then rank + 1 in decimal.
Location_pgn(self) ==
    LET ch == IF self.file < Len(FILE_CHARS) THEN {FILE_CHARS[self.file + 1]} ELSE {}
    IN  IF ch = {} THEN Panic("Invalid file") ELSE Ok(<<The(ch)>> \o ToDecimal(self.rank + 1))

parse_rank(rank) ==
    LET parsed == ParseU8(rank)
    IN  IF parsed = {} \/ parsed = {0} THEN Panic("Invalid rank")
        ELSE IF The(parsed) - 1 < 8 THEN Ok(The(parsed) - 1)
        ELSE Panic("Invalid rank")

parse_file(file) ==
    IF Len(file) # 1 THEN Panic("Invalid file")
    ELSE IF Find(FILE_CHARS, file[1]) = {} THEN Panic("Invalid file")
    ELSE Ok(The(Find(FILE_CHARS, file[1])))

Location_parse_pgn(pgn) ==
    IF Len(pgn) # 2 THEN Panic("Invalid square")
    ELSE LET r == parse_rank(SubSeq(pgn, 2, 2))
             f == parse_file(SubSeq(pgn, 1, 1))
         IN  IF ~r.ok THEN r
             ELSE IF ~f.ok THEN f
             ELSE Ok(Loc(r.val, f.val))

---------------------------------------------------------------------------
(* Move and Piece.                                                         *)

Simple(from, to) == [from |-> from, to |-> to]

\* Pawn::new, Knight::new, ...: a freshly allocated piece. The Box that holds
\* it is told apart from every other Box by `id`, the square the piece was
\* created for (from_repr creates one piece per square at most).
NewPiece(color, kind, location) ==
    [color |-> color, kind |-> kind, location |-> location, id |-> location]

\* A set_location that forgets to store: the piece keeps its old location.
set_location_kept(piece, location) == piece

set_location(piece, location) == [piece EXCEPT !.location = location]

get_piece(ps, location) == IF location \in DOMAIN ps THEN {ps[location]} ELSE {}

\* A pawn generator with the rule of chess the code does not have: the
\* double step from the pawn's starting rank only.
Pawn_possible_moves_from_start(self, ps) ==
    LET f1 == forward(self.location, self.color)
        start == IF self.color = "White" THEN 1 ELSE 6
    IN  IF f1 = {} THEN <<>>
        ELSE
          LET forward1 == The(f1)
              f2 == forward(forward1, self.color)
              steps ==
                IF get_piece(ps, forward1) = {}
                THEN IF f2 # {} /\ self.location.rank = start
                        /\ get_piece(ps, The(f2)) = {}
                     THEN <<Simple(self.location, forward1),
                            Simple(self.location, The(f2))>>
                     ELSE <<Simple(self.location, forward1)>>
                ELSE <<>>
              cl == left(forward1, self.color)
              capture_left ==
                IF cl # {} /\ get_piece(ps, The(cl)) # {}
                   /\ The(get_piece(ps, The(cl))).color # self.color
                THEN <<Simple(self.location, The(cl))>>
                ELSE <<>>
              cr == right(forward1, self.color)
              capture_right ==
                IF cr # {} /\ get_piece(ps, The(cr)) # {}
                   /\ The(get_piece(ps, The(cr))).color # self.color
                THEN <<Simple(self.location, The(cr))>>
                ELSE <<>>
          IN  steps \o capture_left \o capture_right

Pawn_possible_moves(self, ps) ==
    LET f1 == forward(self.location, self.color)
    IN  IF f1 = {} THEN <<>>
        ELSE
          LET forward1 == The(f1)
              f2 == forward(forward1, self.color)
              steps ==
                IF get_piece(ps, forward1) = {}
                THEN IF f2 # {}
                     THEN IF get_piece(ps, The(f2)) = {}
                          THEN <<Simple(self.location, forward1),
                                 Simple(self.location, The(f2))>>
                          ELSE <<Simple(self.location, forward1)>>
                     ELSE <<Simple(self.location, forward1)>>
                ELSE <<>>
              cl == left(forward1, self.color)
              capture_left ==
                IF cl # {} /\ get_piece(ps, The(cl)) # {}
                   /\ The(get_piece(ps, The(cl))).color # self.color
                THEN <<Simple(self.location, The(cl))>>
                ELSE <<>>
              cr == right(forward1, self.color)
              capture_right ==
                IF cr # {} /\ get_piece(ps, The(cr)) # {}
                   /\ The(get_piece(ps, The(cr))).color # self.color
                THEN <<Simple(self.location, The(cr))>>
                ELSE <<>>
          IN  steps \o capture_left \o capture_right

KnightOffsets ==
    << <<1, 2>>, <<2, 1>>, <<2, -1>>, <<1, -2>>, <<-1, -2>>, <<-2, -1>>, <<-2, 1>>, <<-1, 2>> >>

\* A knight's loop body without the test of the target's color.
KnightStep_onto_own(self, ps, offset) ==
    LET t == move_relative(self.location, self.color, offset[1], offset[2])
    IN  IF t = {} THEN <<>> ELSE <<Simple(self.location, The(t))>>

\* One pass of the knight's loop body, for offsets[i].
KnightStep(self, ps, offset) ==
    LET t == move_relative(self.location, self.color, offset[1], offset[2])
    IN  IF t = {} THEN <<>>
        ELSE IF get_piece(ps, The(t)) # {}
             THEN IF The(get_piece(ps, The(t))).color # self.color
                  THEN <<Simple(self.location, The(t))>>
                  ELSE <<>>
             ELSE <<Simple(self.location, The(t))>>

RECURSIVE KnightLoop(_, _, _)
KnightLoop(self, ps, i) ==
    IF i > Len(KnightOffsets) THEN <<>>
    ELSE KnightStep(self, ps, KnightOffsets[i]) \o KnightLoop(self, ps, i + 1)

Knight_possible_moves(self, ps) == KnightLoop(self, ps, 1)

\* The inner loop without the `break`: the ray goes on behind a piece.
RECURSIVE SlideLoop_through(_, _, _, _)
SlideLoop_through(self, ps, direction, distance) ==
    IF distance >= 8 THEN <<>>
    ELSE
      LET t == move_relative(self.location, self.color,
                             distance * direction[1], distance * direction[2])
      IN  IF t = {} THEN SlideLoop_through(self, ps, direction, distance + 1)
          ELSE (IF get_piece(ps, The(t)) # {}
                   /\ The(get_piece(ps, The(t))).color = self.color
                THEN <<>>
                ELSE <<Simple(self.location, The(t))>>)
               \o SlideLoop_through(self, ps, direction, distance + 1)

\* The inner loop shared, text for text, by Bishop, Rook and Queen:
\* `for distance in 1..8`, from `distance` on, along one direction.
\* An off-board target does not end the loop; an occupied one does (break).
RECURSIVE SlideLoop(_, _, _, _)
SlideLoop(self, ps, direction, distance) ==
    IF distance >= 8 THEN <<>>
    ELSE
      LET t == move_relative(self.location, self.color,
                             distance * direction[1], distance * direction[2])
      IN  IF t = {} THEN SlideLoop(self, ps, direction, distance + 1)
          ELSE IF get_piece(ps, The(t)) # {}
               THEN IF The(get_piece(ps, The(t))).color # self.color
                    THEN <<Simple(self.location, The(t))>>
                    ELSE <<>>
               ELSE <<Simple(self.location, The(t))>>
                    \o SlideLoop(self, ps, direction, distance + 1)

\* The outer loop: `for direction in directions.iter()`.
RECURSIVE DirectionLoop(_, _, _, _)
DirectionLoop(self, ps, directions, i) ==
    IF i > Len(directions) THEN <<>>
    ELSE SlideLoop(self, ps, directions[i], 1) \o DirectionLoop(self, ps, directions, i + 1)

BishopDirections == << <<1, 1>>, <<1, -1>>, <<-1, 1>>, <<-1, -1>> >>

RookDirections == << <<0, 1>>, <<1, 0>>, <<0, -1>>, <<-1, 0>> >>

QueenDirections ==
    << <<0, 1>>, <<1, 0>>, <<0, -1>>, <<-1, 0>>, <<1, 1>>, <<1, -1>>, <<-1, 1>>, <<-1, -1>> >>

Bishop_possible_moves(self, ps) == DirectionLoop(self, ps, BishopDirections, 1)

Rook_possible_moves(self, ps) == DirectionLoop(self, ps, RookDirections, 1)

Queen_possible_moves(self, ps) == DirectionLoop(self, ps, QueenDirections, 1)

King_possible_moves(self, ps) == <<>>

\* piece.possible_moves(board): dynamic dispatch on the concrete piece type.
Piece_possible_moves(self, ps) ==
    CASE self.kind = "Pawn" -> Pawn_possible_moves(self, ps)
      [] self.kind = "Knight" -> Knight_possible_moves(self, ps)
      [] self.kind = "Bishop" -> Bishop_possible_moves(self, ps)
      [] self.kind = "Rook" -> Rook_possible_moves(self, ps)
      [] self.kind = "Queen" -> Queen_possible_moves(self, ps)
      [] self.kind = "King" -> King_possible_moves(self, ps)

\* Piece::repr: the glyph of a piece.
Piece_repr(self) ==
    LET w == CASE self.kind = "King" -> "K" [] self.kind = "Queen" -> "Q"
               [] self.kind = "Rook" -> "R" [] self.kind = "Bishop" -> "B"
               [] self.kind = "Knight" -> "N" [] self.kind = "Pawn" -> "P"
        b == CASE self.kind = "King" -> "k" [] self.kind = "Queen" -> "q"
               [] self.kind = "Rook" -> "r" [] self.kind = "Bishop" -> "b"
               [] self.kind = "Knight" -> "n" [] self.kind = "Pawn" -> "p"
    IN  IF self.color = "White" THEN w ELSE b

piece_from_repr(repr, location) ==
    CASE repr = "K" -> Ok({NewPiece("White", "King", location)})
      [] repr = "Q" -> Ok({NewPiece("White", "Queen", location)})
      [] repr = "R" -> Ok({NewPiece("White", "Rook", location)})
      [] repr = "B" -> Ok({NewPiece("White", "Bishop", location)})
      [] repr = "N" -> Ok({NewPiece("White", "Knight", location)})
      [] repr = "P" -> Ok({NewPiece("White", "Pawn", location)})
      [] repr = "k" -> Ok({NewPiece("Black", "King", location)})
      [] repr = "q" -> Ok({NewPiece("Black", "Queen", location)})
      [] repr = "r" -> Ok({NewPiece("Black", "Rook", location)})
      [] repr = "b" -> Ok({NewPiece("Black", "Bishop", location)})
      [] repr = "n" -> Ok({NewPiece("Black", "Knight", location)})
      [] repr = "p" -> Ok({NewPiece("Black", "Pawn", location)})
      [] repr = " " -> Ok({})
      [] OTHER -> Panic("Invalid repr character")

---------------------------------------------------------------------------
(* Board.                                                                  *)

EmptyMap == [l \in {} |-> {}]

\* Board::new
Board_new == [pieces |-> EmptyMap, to_move |-> "White"]

\* HashMap::remove(location)
remove_piece(ps, location) == [l \in (DOMAIN ps) \ {location} |-> ps[l]]

\* The board after add_piece, HashMap::insert(piece.location(), piece), has
\* been called for every piece of `added`: each is stored under its own location (pieces of `added` have
\* pairwise different locations, so the order of the calls does not show).
add_pieces(ps, added) ==
    [l \in (DOMAIN ps) \cup {p.location : p \in added} |->
       IF \E p \in added : p.location = l
       THEN CHOOSE p \in added : p.location = l
       ELSE ps[l]]

\* A pass that reads rank r of the text at row r: rank 1 first.
from_repr_pass_unflipped(repr, k) ==
    LET r == 7 - (k \div 8)
        f == k % 8
    IN  piece_from_repr(repr[(8 * r + f) + 1], Loc(r, f))

\* Pass k (0..63) of the two nested loops of from_repr: rank r = 7 - k \div 8
\* of `(0..8).rev()` and file f = k % 8 of `0..8`; the glyph read is the one
\* at index 8 * (7 - r) + f, and the piece is created for Location {r, f}.
from_repr_pass(repr, k) ==
    LET r == 7 - (k \div 8)
        f == k % 8
    IN  piece_from_repr(repr[(8 * (7 - r) + f) + 1], Loc(r, f))

from_repr(repr) ==
    IF Len(repr) # 64 THEN Panic("assertion failed: graphemes count == 64")
    ELSE IF \E k \in 0..63 : ~from_repr_pass(repr, k).ok
    THEN Panic("Invalid repr character")
    ELSE Ok([pieces |-> add_pieces(Board_new.pieces,
                                   UNION {from_repr_pass(repr, k).val : k \in 0..63}),
             to_move |-> Board_new.to_move])

\* One rank of to_str: files f..7, a space between files.
RECURSIVE to_str_files(_, _, _)
to_str_files(ps, r, f) ==
    IF f >= 8 THEN <<>>
    ELSE (IF get_piece(ps, Loc(r, f)) # {}
          THEN <<Piece_repr(The(get_piece(ps, Loc(r, f))))>>
          ELSE <<" ">>)
         \o (IF f < 7 THEN <<" ">> ELSE <<>>)
         \o to_str_files(ps, r, f + 1)

\* The ranks of to_str from r down to 0, a newline after each.
RECURSIVE to_str_ranks(_, _)
to_str_ranks(ps, r) ==
    IF r < 0 THEN <<>>
    ELSE to_str_files(ps, r, 0) \o <<"\n">> \o to_str_ranks(ps, r - 1)

to_str(ps) == to_str_ranks(ps, 7)

\* The text of Board::default, rank 8 first.
DefaultRepr ==
    <<"r", "n", "b", "q", "k", "b", "n", "r">> \o
    <<"p", "p", "p", "p", "p", "p", "p", "p">> \o
    <<" ", " ", " ", " ", " ", " ", " ", " ">> \o
    <<" ", " ", " ", " ", " ", " ", " ", " ">> \o
    <<" ", " ", " ", " ", " ", " ", " ", " ">> \o
    <<" ", " ", " ", " ", " ", " ", " ", " ">> \o
    <<"P", "P", "P", "P", "P", "P", "P", "P">> \o
    <<"R", "N", "B", "Q", "K", "B", "N", "R">>

Board_default == from_repr(DefaultRepr)

\* possible_moves without the test of the piece's color.
RECURSIVE possible_moves_loop_all(_, _, _, _)
possible_moves_loop_all(ps, tm, iter, i) ==
    IF i > Len(iter) THEN <<>>
    ELSE Piece_possible_moves(ps[iter[i]], ps) \o possible_moves_loop_all(ps, tm, iter, i + 1)

\* Board::possible_moves. `iter` is the order in which the HashMap hands out
\* its entries (unspecified by HashMap): a sequence of the keys.
RECURSIVE possible_moves_loop(_, _, _, _)
possible_moves_loop(ps, tm, iter, i) ==
    IF i > Len(iter) THEN <<>>
    ELSE (IF ps[iter[i]].color = tm THEN Piece_possible_moves(ps[iter[i]], ps) ELSE <<>>)
         \o possible_moves_loop(ps, tm, iter, i + 1)

possible_moves(ps, tm, iter) == possible_moves_loop(ps, tm, iter, 1)

\* An apply_move that inserts the piece under `to` without telling it.
apply_move_stale(ps, tm, move) ==
    IF move.from \notin DOMAIN ps
    THEN [ok |-> FALSE, panic |-> "No piece at", pieces |-> remove_piece(ps, move.from),
          to_move |-> tm]
    ELSE LET removed == remove_piece(ps, move.from)
             inserted == [l \in (DOMAIN removed) \cup {move.to} |->
                            IF l = move.to THEN ps[move.from] ELSE removed[l]]
         IN  [ok |-> TRUE, panic |-> "", pieces |-> inserted,
              to_move |-> IF tm = "Black" THEN "White" ELSE "Black"]

\* An apply_move that moves the piece and leaves the turn where it was.
apply_move_same_turn(ps, tm, move) ==
    IF move.from \notin DOMAIN ps
    THEN [ok |-> FALSE, panic |-> "No piece at", pieces |-> remove_piece(ps, move.from),
          to_move |-> tm]
    ELSE LET removed == remove_piece(ps, move.from)
             piece == set_location(ps[move.from], move.to)
             inserted == [l \in (DOMAIN removed) \cup {move.to} |->
                            IF l = move.to THEN piece ELSE removed[l]]
         IN  [ok |-> TRUE, panic |-> "", pieces |-> inserted, to_move |-> tm]

\* An apply_move that clears `to` and passes the turn before it looks at
\* `from`.
apply_move_eager(ps, tm, move) ==
    LET cleared == remove_piece(ps, move.to)
        next == IF tm = "Black" THEN "White" ELSE "Black"
    IN  IF move.from \notin DOMAIN ps
        THEN [ok |-> FALSE, panic |-> "No piece at", pieces |-> cleared, to_move |-> next]
        ELSE LET removed == remove_piece(cleared, move.from)
                 piece == set_location(ps[move.from], move.to)
                 inserted == [l \in (DOMAIN removed) \cup {move.to} |->
                                IF l = move.to THEN piece ELSE removed[l]]
             IN  [ok |-> TRUE, panic |-> "", pieces |-> inserted, to_move |-> next]

\* Board::apply_move. The result carries the board as the call leaves it,
\* also when it panics.
apply_move(ps, tm, move) ==
    IF move.from \notin DOMAIN ps
    THEN [ok |-> FALSE, panic |-> "No piece at", pieces |-> remove_piece(ps, move.from),
          to_move |-> tm]
    ELSE LET removed == remove_piece(ps, move.from)
             piece == set_location(ps[move.from], move.to)
             inserted == [l \in (DOMAIN removed) \cup {move.to} |->
                            IF l = move.to THEN piece ELSE removed[l]]
         IN  [ok |-> TRUE, panic |-> "", pieces |-> inserted,
              to_move |-> IF tm = "Black" THEN "White" ELSE "Black"]

\* A to_pgn that writes the source file after the kind letter.
to_pgn_with_source(ps, move) ==
    IF get_piece(ps, move.from) # {}
    THEN LET sq == Location_pgn(move.to)
         IN  IF sq.ok
             THEN Ok(kind_to_pgn(The(get_piece(ps, move.from)).kind)
                       \o <<FILE_CHARS[move.from.file + 1]>> \o sq.val)
             ELSE sq
    ELSE Panic("No piece at")

\* Board::to_pgn
to_pgn(ps, move) ==
    IF get_piece(ps, move.from) # {}
    THEN LET sq == Location_pgn(move.to)
         IN  IF sq.ok THEN Ok(kind_to_pgn(The(get_piece(ps, move.from)).kind) \o sq.val)
             ELSE sq
    ELSE Panic("No piece at")

---------------------------------------------------------------------------
(* The notation decoder.                                                   *)

KindChars == {"N", "B", "R", "Q", "K"}

FileChars == {"a", "b", "c", "d", "e", "f", "g", "h"}

RankChars == {"1", "2", "3", "4", "5", "6", "7", "8"}

\* The regex ^([NBRQK]?)([a-h]?)([1-8]?)x?([a-h][1-8])$ : None when the text
\* does not match, else the four capture groups. The last group is anchored
\* at the end and two characters long; what precedes it is matched by four
\* optional one-character groups over pairwise disjoint character classes,
\* so the match, when there is one, is the left-to-right scan below.
simple_re(pgn) ==
    LET n == Len(pgn)
        m == n - 2
        at(i) == IF i <= m THEN pgn[i] ELSE ""
        k == IF at(1) \in KindChars THEN <<at(1)>> ELSE <<>>
        i1 == 1 + Len(k)
        f == IF at(i1) \in FileChars THEN <<at(i1)>> ELSE <<>>
        i2 == i1 + Len(f)
        r == IF at(i2) \in RankChars THEN <<at(i2)>> ELSE <<>>
        i3 == i2 + Len(r)
        x == IF at(i3) = "x" THEN <<at(i3)>> ELSE <<>>
        i4 == i3 + Len(x)
    IN  IF n >= 2 /\ i4 = m + 1 /\ pgn[n - 1] \in FileChars /\ pgn[n] \in RankChars
        THEN {<<k, f, r, SubSeq(pgn, n - 1, n)>>}
        ELSE {}

\* The loop body without the can_move test.
is_candidate_any_reach(piece, ps, tm, kind, source_file, source_rank, dest_loc) ==
    /\ piece.color = tm
    /\ piece.kind = kind
    /\ (source_file # {} => The(source_file) = piece.location.file)
    /\ (source_rank # {} => The(source_rank) = piece.location.rank)

\* The loop body without the test of the piece's color.
is_candidate_any_color(piece, ps, tm, kind, source_file, source_rank, dest_loc) ==
    /\ piece.kind = kind
    /\ (source_file # {} => The(source_file) = piece.location.file)
    /\ (source_rank # {} => The(source_rank) = piece.location.rank)
    /\ LET moves == Piece_possible_moves(piece, ps)
       IN  \E i \in 1..Len(moves) : moves[i].to = dest_loc

\* The loop body without the test of the source file.
is_candidate_any_file(piece, ps, tm, kind, source_file, source_rank, dest_loc) ==
    /\ piece.color = tm
    /\ piece.kind = kind
    /\ (source_rank # {} => The(source_rank) = piece.location.rank)
    /\ LET moves == Piece_possible_moves(piece, ps)
       IN  \E i \in 1..Len(moves) : moves[i].to = dest_loc

\* The body of the `for (_, piece) in &self.pieces` loop of parse_pgn_move:
\* whether `piece` is pushed to candidate_pieces.
is_candidate(piece, ps, tm, kind, source_file, source_rank, dest_loc) ==
    /\ piece.color = tm
    /\ piece.kind = kind
    /\ (source_file # {} => The(source_file) = piece.location.file)
    /\ (source_rank # {} => The(source_rank) = piece.location.rank)
    /\ LET moves == Piece_possible_moves(piece, ps)
       IN  \E i \in 1..Len(moves) : moves[i].to = dest_loc

\* Board::parse_pgn_move. candidate_pieces is kept as the set of the keys of
\* the pieces pushed: only its length and, when that is 1, its one element
\* are used.
parse_pgn_move(ps, tm, pgn) ==
    IF simple_re(pgn) = {} THEN Panic("Could not parse move")
    ELSE
      LET cap == The(simple_re(pgn))
          kind == pgn_to_kind(cap[1])
          source_file == IF cap[2] = <<>> THEN {} ELSE {The(Find(FILE_CHARS, cap[2][1]))}
          source_rank == IF cap[3] = <<>> THEN {} ELSE {The(ParseU8(cap[3])) - 1}
          dest_loc == Location_parse_pgn(cap[4])
      IN  IF ~kind.ok THEN kind
          ELSE IF ~dest_loc.ok THEN dest_loc
          ELSE
            LET candidate_pieces ==
                  {l \in DOMAIN ps :
                     is_candidate(ps[l], ps, tm, kind.val, source_file, source_rank,
                                  dest_loc.val)}
            IN  IF ~(Cardinality(candidate_pieces) > 0)
                THEN Panic("No pieces can make the move")
                ELSE IF ~(Cardinality(candidate_pieces) = 1)
                THEN Panic("Move is ambiguous")
                ELSE Ok(Simple(ps[The(candidate_pieces)].location, dest_loc.val))

\* str::trim, as main applies it to the line read: leading and trailing
\* whitespace removed.
RECURSIVE trim_start(_)
trim_start(s) == IF s # <<>> /\ Head(s) \in {" ", "\n"} THEN trim_start(Tail(s)) ELSE s

RECURSIVE trim_end(_)
trim_end(s) ==
    IF s # <<>> /\ s[Len(s)] \in {" ", "\n"} THEN trim_end(SubSeq(s, 1, Len(s) - 1)) ELSE s

trim(s) == trim_end(trim_start(s))

---------------------------------------------------------------------------
(* The operations as steps of a caller.                                    *)

NoObs == [op |-> "none", arg |-> <<>>, result |-> <<>>]

\* Board::new(): an empty map, White to move.
Init ==
    /\ pieces = Board_new.pieces
    /\ to_move = Board_new.to_move
    /\ pc = "new"
    /\ call = [op |-> "new", arg |-> <<>>]
    /\ prev_pieces = Board_new.pieces
    /\ prev_to_move = Board_new.to_move
    /\ obs = NoObs
    /\ panic = ""
    /\ n_applied = 0

\* A board built from text: from_repr starts from Board::new() and adds the pieces.
Build(op, repr) ==
    LET res == from_repr(repr)
    IN  /\ pc = "new"
        /\ call' = [op |-> op, arg |-> repr]
        /\ prev_pieces' = pieces
        /\ prev_to_move' = to_move
        /\ obs' = NoObs
        /\ n_applied' = 0
        /\ IF res.ok
           THEN /\ pieces' = res.val.pieces
                /\ to_move' = res.val.to_move
                /\ pc' = "ready"
                /\ panic' = ""
           ELSE /\ UNCHANGED <<pieces, to_move>>
                /\ pc' = "panicked"
                /\ panic' = res.panic

FromRepr(repr) == Build("from_repr", repr)

Default == Build("default", DefaultRepr)

\* board.apply_move(move), on the caller's board.
Apply(move) ==
    LET res == apply_move(pieces, to_move, move)
    IN  /\ call' = [op |-> "apply_move", arg |-> move]
        /\ prev_pieces' = pieces
        /\ prev_to_move' = to_move
        /\ pieces' = res.pieces
        /\ to_move' = res.to_move
        /\ obs' = NoObs
        /\ pc' = IF res.ok THEN "ready" ELSE "panicked"
        /\ panic' = res.panic
        /\ n_applied' = IF res.ok THEN n_applied + 1 ELSE n_applied

\* A call of a `&self` method: the board is borrowed immutably, the value
\* returned (or the panic) is all the call leaves behind.
Observe(op, arg, res) ==
    /\ obs' = [op |-> op, arg |-> arg, result |-> res]
    /\ pc' = IF res.ok THEN "returned" ELSE "panicked"
    /\ panic' = IF res.ok THEN "" ELSE res.panic
    /\ UNCHANGED <<pieces, to_move, call, prev_pieces, prev_to_move, n_applied>>

GetPiece(location) ==
    /\ pc = "ready"
    /\ Observe("get_piece", location, Ok(get_piece(pieces, location)))

PiecePossibleMoves(location) ==
    /\ pc = "ready"
    /\ location \in DOMAIN pieces
    /\ Observe("piece_possible_moves", location,
               Ok(Piece_possible_moves(pieces[location], pieces)))

PossibleMoves(iter) ==
    /\ pc = "ready"
    /\ Observe("possible_moves", iter, Ok(possible_moves(pieces, to_move, iter)))

ToStr ==
    /\ pc = "ready"
    /\ Observe("to_str", <<>>, Ok(to_str(pieces)))

ToPgn(move) == Observe("to_pgn", move, to_pgn(pieces, move))

\* board.parse_pgn_move(pgn). `shape` is not read by the call: it records,
\* for the text the caller wrote, the parts the caller assembled it from
\* (None for a text of another shape).
ParsePgnMove(pgn, shape) ==
    /\ pc = "ready"
    /\ Observe("parse_pgn_move", [text |-> pgn, shape |-> shape],
               parse_pgn_move(pieces, to_move, pgn))

\* The caller is done with the value returned.
Resume ==
    /\ pc = "returned"
    /\ pc' = "ready"
    /\ obs' = NoObs
    /\ UNCHANGED <<pieces, to_move, call, prev_pieces, prev_to_move, panic, n_applied>>

---------------------------------------------------------------------------
(* GenSpec: the per-piece generators of pawns and sliding pieces, on boards *)
(* that hold one such piece and other pieces around it.                     *)

\* At most this many pieces stand on the ray next to a sliding piece.
MaxBlockers == 2

\* The board from_repr builds from a text showing exactly the pieces of P
\* (no two on one square): each piece under its own location.
BoardOf(P) == [l \in {p.location : p \in P} |-> CHOOSE p \in P : p.location = l]

OnBoard(r, f) == r \in 0..7 /\ f \in 0..7

\* The eight compass directions, as (rank step, file step) on the board.
Compass == {d \in (-1..1) \X (-1..1) : d # <<0, 0>>}

\* The squares of the ray that leaves l in direction d, nearest first.
RaySquare(l, d, n) == Loc(l.rank + n * d[1], l.file + n * d[2])

RayLength(l, d) == Cardinality({n \in 1..7 : OnBoard(l.rank + n * d[1], l.file + n * d[2])})

\* Up to MaxBlockers pieces (Knights, of either color) on one ray from l.
RayFillings(l, d) ==
    LET cells == (1..RayLength(l, d)) \X Color
        one == {{x} : x \in cells}
        more(S) == {B \cup {x} : B \in S, x \in cells}
        upTo[k \in 0..MaxBlockers] == IF k = 0 THEN {{}} ELSE upTo[k - 1] \cup more(upTo[k - 1])
    IN  {B \in upTo[MaxBlockers] : \A x, y \in B : x[1] = y[1] => x = y}

\* The squares a pawn's generator reads, as (ranks ahead, files to the right
\* on the board), and the other squares next to the pawn.
PawnAhead == {<<1, 0>>, <<2, 0>>, <<1, -1>>, <<1, 1>>}

PawnAround == {<<0, -1>>, <<0, 1>>, <<-1, -1>>, <<-1, 0>>, <<-1, 1>>}

\* Every way to leave empty or fill, with a piece of either color, each
\* square ahead of the pawn; and a single piece beside or behind it.
PawnFillings ==
    {B \in SUBSET (PawnAhead \X Color) : \A x, y \in B : x[1] = y[1] => x = y}
    \cup {{x} : x \in PawnAround \X Color}

\* The square `off` of a pawn of color c at l, if on the board.
PawnCell(c, l, off) ==
    LET r == IF c = "White" THEN l.rank + off[1] ELSE l.rank - off[1]
        f == l.file + off[2]
    IN  IF OnBoard(r, f) THEN {Loc(r, f)} ELSE {}

GenKinds == {"Pawn", "Bishop", "Rook", "Queen"}

GenInit ==
    /\ \/ \E c \in Color, k \in {"Bishop", "Rook", "Queen"}, l \in Locations, d \in Compass :
            \E B \in RayFillings(l, d) :
               pieces = BoardOf({NewPiece(c, k, l)}
                          \cup {NewPiece(x[2], "Knight", RaySquare(l, d, x[1])) : x \in B})
       \/ \E c \in Color, l \in Locations, B \in PawnFillings :
            pieces = BoardOf({NewPiece(c, "Pawn", l)}
                       \cup {NewPiece(x[2], "Knight", The(PawnCell(c, l, x[1]))) :
                               x \in {y \in B : PawnCell(c, l, y[1]) # {}}})
    /\ to_move = Board_new.to_move
    /\ pc = "ready"
    /\ call = [op |-> "built", arg |-> <<>>]
    /\ prev_pieces = Board_new.pieces
    /\ prev_to_move = Board_new.to_move
    /\ obs = NoObs
    /\ panic = ""
    /\ n_applied = 0

NextGen ==
    \E l \in Locations :
       /\ l \in DOMAIN pieces
       /\ pieces[l].kind \in GenKinds
       /\ PiecePossibleMoves(l)

GenSpec == GenInit /\ [][NextGen]_vars

---------------------------------------------------------------------------
(* Claims about the generators (GenSpec).                                  *)

\* The targets of a Vec<Move>, as a set.
Targets(moves) == {moves[i].to : i \in 1..Len(moves)}

\* The direction set of a sliding kind, as steps on the board.
DirectionSet(kind) ==
    CASE kind = "Bishop" -> {d \in Compass : d[1] # 0 /\ d[2] # 0}
      [] kind = "Rook" -> {d \in Compass : d[1] = 0 \/ d[2] = 0}
      [] kind = "Queen" -> Compass

\* The squares of the ray from l in direction d that are on the board.
Ray(l, d) == {RaySquare(l, d, n) : n \in 1..RayLength(l, d)}

\* What the claim allows along the ray: every empty square before the first
\* occupied one, and that first occupied square iff it holds the other color.
RayExpected(ps, color, l, d) ==
    {RaySquare(l, d, n) : n \in
       {n \in 1..RayLength(l, d) :
          /\ \A j \in 1..(n - 1) : RaySquare(l, d, j) \notin DOMAIN ps
          /\ (RaySquare(l, d, n) \in DOMAIN ps => ps[RaySquare(l, d, n)].color # color)}}

SliderObserved ==
    /\ obs.op = "piece_possible_moves"
    /\ pieces[obs.arg].kind \in {"Bishop", "Rook", "Queen"}

\* C9: for a bishop, rook or queen, along each direction of its direction
\* set the generated targets are exactly the empty squares before the first
\* occupied square plus that square iff it holds an opposing piece; nothing
\* beyond the first occupied square, and nothing off its directions, is a
\* target; every move starts at the piece's square.
C9_SlidingRays ==
    SliderObserved =>
      LET p == pieces[obs.arg]
          moves == obs.result.val
      IN  /\ \A d \in DirectionSet(p.kind) :
                Targets(moves) \cap Ray(p.location, d)
                  = RayExpected(pieces, p.color, p.location, d)
          /\ Targets(moves) \subseteq UNION {Ray(p.location, d) : d \in DirectionSet(p.kind)}
          /\ \A i \in 1..Len(moves) : moves[i].from = p.location

\* C9 witness: a ray with empty squares, then an opposing piece that is a
\* target, then a further piece that is not.
C9_Witness ==
    /\ SliderObserved
    /\ \E d \in DirectionSet(pieces[obs.arg].kind) :
         \E n \in 2..6 :
            LET l == pieces[obs.arg].location
            IN  /\ RayLength(l, d) > n
                /\ \A j \in 1..(n - 1) : RaySquare(l, d, j) \notin DOMAIN pieces
                /\ RaySquare(l, d, n) \in DOMAIN pieces
                /\ pieces[RaySquare(l, d, n)].color # pieces[obs.arg].color
                /\ RaySquare(l, d, n) \in Targets(obs.result.val)
                /\ RaySquare(l, d, n + 1) \in DOMAIN pieces
                /\ RaySquare(l, d, n + 1) \notin Targets(obs.result.val)

PawnObserved ==
    /\ obs.op = "piece_possible_moves"
    /\ pieces[obs.arg].kind = "Pawn"

\* What the claim allows a pawn: one step ahead if empty, two steps ahead if
\* both squares are empty, a diagonal step ahead onto an opposing piece.
PawnExpected(ps, p) ==
    LET l == p.location
        one == PawnCell(p.color, l, <<1, 0>>)
        two == PawnCell(p.color, l, <<2, 0>>)
        diag == PawnCell(p.color, l, <<1, -1>>) \cup PawnCell(p.color, l, <<1, 1>>)
    IN  {q \in one : q \notin DOMAIN ps}
        \cup {q \in two : q \notin DOMAIN ps /\ \A o \in one : o \notin DOMAIN ps}
        \cup {q \in diag : q \in DOMAIN ps /\ ps[q].color # p.color}

\* The pawn's own second rank.
SecondRank(color) == IF color = "White" THEN 1 ELSE 6

\* C10: a pawn's moves are exactly the step ahead iff that square is empty,
\* the double step iff both squares ahead are empty (on any rank), and each
\* diagonal step ahead iff the square holds an opposing piece; on its second
\* rank with both squares ahead empty it has exactly 2 forward moves.
C10_PawnMoves ==
    PawnObserved =>
      LET p == pieces[obs.arg]
          moves == obs.result.val
      IN  /\ Targets(moves) = PawnExpected(pieces, p)
          /\ \A i \in 1..Len(moves) : moves[i].from = p.location
          /\ (/\ p.location.rank = SecondRank(p.color)
              /\ \A off \in {<<1, 0>>, <<2, 0>>} :
                    The(PawnCell(p.color, p.location, off)) \notin DOMAIN pieces)
             => Cardinality({i \in 1..Len(moves) :
                               moves[i].to.file = p.location.file}) = 2

\* C10 witness: a pawn off its second rank that is given the double step
\* and a diagonal capture.
C10_Witness ==
    /\ PawnObserved
    /\ LET p == pieces[obs.arg]
       IN  /\ p.location.rank # SecondRank(p.color)
           /\ PawnCell(p.color, p.location, <<2, 0>>) # {}
           /\ The(PawnCell(p.color, p.location, <<2, 0>>)) \in Targets(obs.result.val)
           /\ \E q \in Targets(obs.result.val) : q.file # p.location.file

---------------------------------------------------------------------------
(* Boards and moves the other specifications start from.                   *)

\* A middle-game text: three white rooks that reach a4, two white knights
\* that reach e4, two white pawns that capture on e6, and the same for Black.
TacticsRepr ==
    <<"R", " ", "b", "q", "k", " ", " ", "r">> \o
    <<" ", "p", " ", " ", " ", " ", " ", " ">> \o
    <<" ", " ", "n", " ", "p", " ", "n", " ">> \o
    <<" ", " ", " ", "P", " ", "P", " ", " ">> \o
    <<" ", " ", " ", " ", " ", " ", " ", "R">> \o
    <<" ", " ", "N", " ", " ", " ", "N", " ">> \o
    <<" ", " ", " ", " ", " ", " ", " ", "P">> \o
    <<"R", " ", "B", "Q", "K", " ", " ", " ">>

\* An end-game text with few pieces.
EndgameRepr ==
    <<" ", " ", " ", " ", "k", " ", " ", " ">> \o
    <<" ", "p", " ", " ", " ", " ", " ", "P">> \o
    <<" ", " ", " ", " ", " ", " ", " ", " ">> \o
    <<" ", " ", " ", "q", " ", " ", " ", " ">> \o
    <<" ", " ", " ", " ", " ", " ", " ", " ">> \o
    <<" ", " ", "B", " ", " ", " ", " ", " ">> \o
    <<"p", " ", " ", " ", " ", " ", " ", "P">> \o
    <<" ", " ", " ", " ", "K", " ", " ", " ">>

\* Moves a caller plays to set a position up: h2-h3 and b7-b6.
SetupMoves == {Simple(Loc(1, 7), Loc(2, 7)), Simple(Loc(6, 1), Loc(5, 1))}

\* At most this many setup moves are played on a board.
MaxSetupMoves == 1

\* The board was built from text and only setup moves were played on it.
SetupOnly ==
    \/ call.op = "from_repr"
    \/ call.op = "apply_move" /\ call.arg \in SetupMoves

\* board.apply_move(move), called by a user of the Board.
ApplyMove(move) ==
    /\ pc = "ready"
    /\ Apply(move)

---------------------------------------------------------------------------
(* MoveSpec: apply_move with any move, on boards built from text and set   *)
(* up by setup moves.                                                       *)

MoveReprs == {DefaultRepr, TacticsRepr, EndgameRepr}

NextMove ==
    \/ (pc = "new" /\ \E repr \in MoveReprs : FromRepr(repr))
    \/ /\ pc = "ready"
       /\ SetupOnly
       /\ n_applied <= MaxSetupMoves
       /\ \E from \in Locations, to \in Locations : ApplyMove(Simple(from, to))

MoveSpec == Init /\ [][NextMove]_vars

ApplyReturned == call.op = "apply_move" /\ pc = "ready"

\* C1: after apply_move(Simple(from, to)) with a piece p at `from` and
\* to # from: `from` is empty, `to` holds p (same Box, color and kind) with
\* its location equal to `to`, the piece that stood on `to` is on no square,
\* every other square keeps its occupant, and the number of pieces drops by
\* 1 iff `to` was occupied.
C1_ApplyMoveFrame ==
    (ApplyReturned /\ call.arg.from # call.arg.to) =>
      LET from == call.arg.from
          to == call.arg.to
          p == prev_pieces[from]
      IN  /\ get_piece(pieces, from) = {}
          /\ get_piece(pieces, to) = {[p EXCEPT !.location = to]}
          /\ to \in DOMAIN prev_pieces =>
                \A l \in Locations :
                   \A q \in get_piece(pieces, l) : q.id # prev_pieces[to].id
          /\ \A l \in Locations \ {from, to} :
                get_piece(pieces, l) = get_piece(prev_pieces, l)
          /\ Cardinality(DOMAIN pieces)
               = Cardinality(DOMAIN prev_pieces)
                   - (IF to \in DOMAIN prev_pieces THEN 1 ELSE 0)

\* C1 witness: a move onto an occupied square has been applied, on a board
\* on which a move had been applied before.
C1_Witness ==
    /\ ApplyReturned
    /\ n_applied = 2
    /\ call.arg.from # call.arg.to
    /\ call.arg.to \in DOMAIN prev_pieces
    /\ Cardinality(DOMAIN pieces) = Cardinality(DOMAIN prev_pieces) - 1

\* C3: apply_move from an empty square panics and leaves the board as it
\* was: the piece map (the occupant of `to` included) and to_move.
C3_EmptyFromPanics ==
    (call.op = "apply_move" /\ call.arg.from \notin DOMAIN prev_pieces) =>
      /\ pc = "panicked"
      /\ panic = "No piece at"
      /\ pieces = prev_pieces
      /\ to_move = prev_to_move

\* C3 witness: apply_move has panicked on an empty `from` while `to` held a
\* piece, with Black to move.
C3_Witness ==
    /\ call.op = "apply_move"
    /\ pc = "panicked"
    /\ call.arg.from \notin DOMAIN prev_pieces
    /\ call.arg.to \in DOMAIN pieces
    /\ to_move = "Black"

---------------------------------------------------------------------------
(* PgnSpec: parse_pgn_move on every notation text up to a length, on the   *)
(* middle-game board and the positions setup moves lead to.                 *)

\* The longest notation text the caller writes.
MaxPgnLen == 4

Opt(c) == IF c = "" THEN <<>> ELSE <<c>>

\* A square as the caller writes it: file letter, rank digit.
SquareText(l) == <<FILE_CHARS[l.file + 1], DIGITS[l.rank + 2]>>

\* A text of the accepted shape, from its parts: the kind letter ("" for a
\* pawn), the source file and rank ("" when not given), the capture mark,
\* the destination.
Encode(sh) ==
    Opt(sh.kind) \o Opt(sh.file) \o Opt(sh.rank)
      \o (IF sh.capture THEN <<"x">> ELSE <<>>) \o SquareText(sh.dest)

Shapes ==
    {sh \in [kind : KindChars \cup {""}, file : FileChars \cup {""},
             rank : RankChars \cup {""}, capture : BOOLEAN, dest : Locations] :
        Len(Encode(sh)) <= MaxPgnLen}

\* Texts of no accepted shape.
MalformedTexts ==
    {<<>>, <<"e">>, <<"e", "9">>, <<"i", "4">>, <<"e", "0">>, <<"Z", "e", "4">>,
     <<"n", "f", "3">>, <<"P", "e", "4">>, <<"e", "4", "+">>, <<"N", "x">>,
     <<"x", "x", "e", "4">>, <<"1", "a", "e", "4">>, <<"a", "N", "e", "4">>,
     <<"e", "4", " ">>, <<"O", "-", "O">>}

PgnReprs == {TacticsRepr}

NextPgn ==
    \/ (pc = "new" /\ \E repr \in PgnReprs : FromRepr(repr))
    \/ /\ n_applied < MaxSetupMoves
       /\ \E move \in SetupMoves : ApplyMove(move)
    \/ /\ pc = "ready"
       /\ \/ \E sh \in Shapes : ParsePgnMove(Encode(sh), {sh})
          \/ \E pgn \in MalformedTexts : ParsePgnMove(pgn, {})

PgnSpec == Init /\ [][NextPgn]_vars

\* The kind a kind letter stands for.
KindOfLetter(c) ==
    CASE c = "" -> "Pawn" [] c = "N" -> "Knight" [] c = "B" -> "Bishop"
      [] c = "R" -> "Rook" [] c = "Q" -> "Queen" [] c = "K" -> "King"

\* The file and the rank a source character stands for.
FileOfChar(c) == CHOOSE f \in 0..7 : FILE_CHARS[f + 1] = c

RankOfChar(c) == CHOOSE r \in 0..7 : DIGITS[r + 2] = c

\* The squares of the pieces that (1) have the color to move, (2) have the
\* kind, (3) stand on the source file and rank when given, (4) have a move
\* to the destination in their own possible_moves.
Survivors(ps, tm, kind, file, rank, dest) ==
    {l \in DOMAIN ps :
       /\ ps[l].color = tm
       /\ ps[l].kind = kind
       /\ (file # "" => ps[l].location.file = FileOfChar(file))
       /\ (rank # "" => ps[l].location.rank = RankOfChar(rank))
       /\ dest \in Targets(Piece_possible_moves(ps[l], ps))}

ShapedParse == obs.op = "parse_pgn_move" /\ obs.arg.shape # {}

\* C4: for a text of the accepted shape, parse_pgn_move returns
\* Simple(s.location, destination) exactly when s is the only piece meeting
\* (1)-(4), fails with the no-candidate error when no piece meets them, and
\* gives the same result with and without the 'x'.
C4_ParseSelectsTheOnlySurvivor ==
    ShapedParse =>
      LET sh == The(obs.arg.shape)
          S == Survivors(pieces, to_move, KindOfLetter(sh.kind), sh.file, sh.rank, sh.dest)
      IN  /\ Cardinality(S) = 1 =>
                obs.result = Ok(Simple(pieces[The(S)].location, sh.dest))
          /\ Cardinality(S) # 1 => ~obs.result.ok
          /\ S = {} => obs.result = Panic("No pieces can make the move")
          /\ obs.result
               = parse_pgn_move(pieces, to_move, Encode([sh EXCEPT !.capture = ~sh.capture]))

\* C4 witness: a text with an 'x' and a source file whose destination is an
\* empty square has been decoded to a move, with Black to move.
C4_Witness ==
    /\ ShapedParse
    /\ obs.result.ok
    /\ to_move = "Black"
    /\ The(obs.arg.shape).capture
    /\ The(obs.arg.shape).file # ""
    /\ The(obs.arg.shape).dest \notin DOMAIN pieces

\* C5: when two or more pieces of the side to move have the kind and a move
\* to d, the text with the kind letter and d alone fails with the
\* ambiguous-move error; with the source file of one of them added it
\* returns the move of that piece, the others standing on other files.
C5_AmbiguityAndFile ==
    (ShapedParse /\ The(obs.arg.shape).rank = "") =>
      LET sh == The(obs.arg.shape)
          S == Survivors(pieces, to_move, KindOfLetter(sh.kind), "", "", sh.dest)
      IN  /\ (sh.file = "" /\ Cardinality(S) >= 2) =>
                obs.result = Panic("Move is ambiguous")
          /\ \A l \in S :
                (/\ sh.file # ""
                 /\ l.file = FileOfChar(sh.file)
                 /\ \A o \in S \ {l} : o.file # l.file)
                => obs.result = Ok(Simple(l, sh.dest))

\* C5 witness: the kind letter and the destination alone were ambiguous for
\* two knights ...
C5_WitnessAmbiguous ==
    /\ ShapedParse
    /\ The(obs.arg.shape) = [kind |-> "N", file |-> "", rank |-> "", capture |-> FALSE,
                             dest |-> Loc(3, 4)]
    /\ obs.result = Panic("Move is ambiguous")

\* ... and the same text with the file of one of them was decoded to the
\* move of that knight.
C5_Witness ==
    /\ ShapedParse
    /\ The(obs.arg.shape) = [kind |-> "N", file |-> "c", rank |-> "", capture |-> FALSE,
                             dest |-> Loc(3, 4)]
    /\ obs.result = Ok(Simple(Loc(2, 2), Loc(3, 4)))
    /\ Cardinality(Survivors(pieces, to_move, "Knight", "", "", Loc(3, 4))) = 2

---------------------------------------------------------------------------
(* Spec: a session. A board is built (main builds Board::default()), then  *)
(* lines are read, trimmed, decoded by parse_pgn_move and the move decoded  *)
(* is applied, as in the loop of main; between moves the caller looks at    *)
(* the board through the `&self` methods.                                   *)

\* At most this many moves are applied in a session.
MaxMoves == 3

Sh(kind, file, rank, capture, dest) ==
    [kind |-> kind, file |-> file, rank |-> rank, capture |-> capture, dest |-> dest]

\* e4 Nf3 d4 Nxd4 Ne4 Nce4 exd5 for White, e5 Nc6 exd4 Qd5 d5 Nf6 for Black,
\* Kd2 for none.
SessionShapes ==
    {Sh("", "", "", FALSE, Loc(3, 4)), Sh("N", "", "", FALSE, Loc(2, 5)),
     Sh("", "", "", FALSE, Loc(3, 3)), Sh("N", "", "", TRUE, Loc(3, 3)),
     Sh("N", "", "", FALSE, Loc(3, 4)), Sh("N", "c", "", FALSE, Loc(3, 4)),
     Sh("", "", "", FALSE, Loc(4, 4)), Sh("N", "", "", FALSE, Loc(5, 2)),
     Sh("", "e", "", TRUE, Loc(3, 3)), Sh("Q", "", "", FALSE, Loc(4, 3)),
     Sh("K", "", "", FALSE, Loc(1, 3)), Sh("", "", "", FALSE, Loc(4, 3)),
     Sh("N", "", "", FALSE, Loc(5, 5)), Sh("", "e", "", TRUE, Loc(4, 3))}

\* The lines read: the texts above, one of them with blanks around it, and a
\* line of no accepted shape.
SessionLines ==
    {[line |-> Encode(sh), shape |-> {sh}] : sh \in SessionShapes}
      \cup {[line |-> <<" ", " ">> \o Encode(Sh("N", "", "", FALSE, Loc(2, 5))) \o <<" ">>,
             shape |-> {Sh("N", "", "", FALSE, Loc(2, 5))}],
            [line |-> <<"f", "o", "o">>, shape |-> {}]}

SessionReprs == {TacticsRepr, EndgameRepr}

\* The squares the caller looks at with get_piece.
ProbeSquares == {Loc(0, 6), Loc(2, 5), Loc(3, 4), Loc(7, 4)}

Index(l) == l.rank * 8 + l.file

\* The keys of the map from a1 to h8.
KeysAscending(ps) ==
    [n \in 1..Cardinality(DOMAIN ps) |->
       CHOOSE l \in DOMAIN ps :
          Cardinality({m \in DOMAIN ps : Index(m) < Index(l)}) = n - 1]

Reverse(s) == [n \in 1..Len(s) |-> s[Len(s) + 1 - n]]

\* Orders in which the map may hand out its entries.
IterationOrders(ps) == {KeysAscending(ps), Reverse(KeysAscending(ps))}

\* let line = read!("{}\n"); board.parse_pgn_move(line.trim())
ReadLine(ln) == ParsePgnMove(trim(ln.line), ln.shape)

\* board.apply_move(r#move) with the move parse_pgn_move returned.
MainApply ==
    /\ pc = "returned"
    /\ obs.op = "parse_pgn_move"
    /\ n_applied < MaxMoves
    /\ Apply(obs.result.val)

\* board.to_pgn(r#move) with the move parse_pgn_move returned.
Reencode ==
    /\ pc = "returned"
    /\ obs.op = "parse_pgn_move"
    /\ ToPgn(obs.result.val)

Next ==
    \/ Default
    \/ (pc = "new" /\ \E repr \in SessionReprs : FromRepr(repr))
    \/ (pc = "ready" /\ \E ln \in SessionLines : ReadLine(ln))
    \/ MainApply
    \/ Reencode
    \/ (pc = "ready" /\ \E iter \in IterationOrders(pieces) : PossibleMoves(iter))
    \/ \E location \in ProbeSquares : GetPiece(location)
    \/ ToStr
    \/ Resume

Spec == Init /\ [][Next]_vars

Constructors == {"new", "from_repr", "default"}

\* C2: to_move is White on every board Board::new, from_repr or default
\* produced; after n successful apply_move calls it is White iff n is even;
\* a successful apply_move flips it and no other step changes it.
C2_ToMoveAlternates ==
    /\ []((call.op \in Constructors /\ pc # "panicked") => to_move = "White")
    /\ [](to_move = IF n_applied % 2 = 0 THEN "White" ELSE "Black")
    /\ [][IF n_applied' = n_applied + 1
          THEN to_move' # to_move
          ELSE to_move' = to_move]_vars

\* C2 witness: two moves were applied and then the board was looked at.
C2_Witness ==
    /\ call.op = "apply_move"
    /\ n_applied = 2
    /\ to_move = "White"
    /\ obs.op = "possible_moves"

DefaultPieces == Board_default.val.pieces

Nf3 == <<"N", "f", "3">>

\* C6: on Board::default(), parse_pgn_move("Nf3") returns
\* Simple(Location{rank:0,file:6}, Location{rank:2,file:5}), and to_pgn of
\* that move on the same board returns "Nf3".
C6_Nf3RoundTrip ==
    (pieces = DefaultPieces /\ to_move = "White") =>
       /\ (obs.op = "parse_pgn_move" /\ obs.arg.text = Nf3)
             => obs.result = Ok(Simple(Loc(0, 6), Loc(2, 5)))
       /\ (obs.op = "to_pgn" /\ obs.arg = Simple(Loc(0, 6), Loc(2, 5)))
             => obs.result = Ok(Nf3)

\* C6 witness: on the default board, nothing applied, the move decoded from
\* a line holding "Nf3" was encoded again.
C6_Witness ==
    /\ call.op = "default"
    /\ pieces = DefaultPieces
    /\ obs.op = "to_pgn"
    /\ obs.arg = Simple(Loc(0, 6), Loc(2, 5))
    /\ obs.result.ok

\* The number of moves of `moves` that start from a piece of the kind.
CountOfKind(ps, moves, kind) ==
    Cardinality({i \in 1..Len(moves) : ps[moves[i].from].kind = kind})

PossibleMovesObserved == obs.op = "possible_moves"

\* C7: Board::default().possible_moves() has 20 moves: for each white pawn
\* its single step and its double step, for each white knight 2 moves, and
\* none for the bishops, rooks, queen and king.
C7_DefaultHasTwentyMoves ==
    (PossibleMovesObserved /\ pieces = DefaultPieces /\ to_move = "White") =>
       LET moves == obs.result.val
       IN  /\ Len(moves) = 20
           /\ \A f \in 0..7 :
                 {moves[i].to : i \in {j \in 1..Len(moves) : moves[j].from = Loc(1, f)}}
                   = {Loc(2, f), Loc(3, f)}
           /\ CountOfKind(pieces, moves, "Pawn") = 16
           /\ \A l \in {Loc(0, 1), Loc(0, 6)} :
                 Cardinality({i \in 1..Len(moves) : moves[i].from = l}) = 2
           /\ CountOfKind(pieces, moves, "Knight") = 4
           /\ \A kind \in {"Bishop", "Rook", "Queen", "King"} :
                 CountOfKind(pieces, moves, kind) = 0

\* C7 witness: possible_moves() was called on the board default() built, the
\* map handing out h8 first.
C7_Witness ==
    /\ PossibleMovesObserved
    /\ call.op = "default"
    /\ pieces = DefaultPieces
    /\ obs.arg[1] = Loc(7, 7)
    /\ Len(obs.result.val) = 20

\* The moves the generators of the pieces of a color give, as a set.
GeneratedBy(ps, color) ==
    UNION {LET moves == Piece_possible_moves(ps[l], ps)
           IN  {moves[i] : i \in 1..Len(moves)} :
             l \in {k \in DOMAIN ps : ps[k].color = color}}

---------------------------------------------------------------------------
(* RelSpec: move_relative on every location of the board, for both colors  *)
(* and every shift up to a size.                                            *)

\* The largest shift, in ranks or in files.
MaxShift == 7

Shifts == (0 - MaxShift)..MaxShift

\* self.move_relative(color, rank_shift, file_shift)
MoveRelative(self, color, rank_shift, file_shift) ==
    Observe("move_relative",
            [self |-> self, color |-> color, rank_shift |-> rank_shift,
             file_shift |-> file_shift],
            Ok(move_relative(self, color, rank_shift, file_shift)))

NextRel ==
    /\ pc = "new"
    /\ \E self \in Locations, color \in Color, rank_shift \in Shifts, file_shift \in Shifts :
          MoveRelative(self, color, rank_shift, file_shift)

RelSpec == Init /\ [][NextRel]_vars

MoveRelativeObserved == obs.op = "move_relative"

\* C12: move_relative returns (rank + dr, file + df) for White and
\* (rank - dr, file - df) for Black when both lie in 0..7 and no location
\* otherwise, never one outside the board; for Black it equals move_relative
\* for White with the shift negated.
C12_MoveRelative ==
    MoveRelativeObserved =>
      LET a == obs.arg
          r == IF a.color = "White" THEN a.self.rank + a.rank_shift
                                    ELSE a.self.rank - a.rank_shift
          f == IF a.color = "White" THEN a.self.file + a.file_shift
                                    ELSE a.self.file - a.file_shift
          on == r \in 0..7 /\ f \in 0..7
      IN  /\ on => obs.result.val = {[rank |-> r, file |-> f]}
          /\ ~on => obs.result.val = {}
          /\ \A l \in obs.result.val : l.rank \in 0..7 /\ l.file \in 0..7
          /\ a.color = "Black" =>
                obs.result.val
                  = move_relative(a.self, "White", 0 - a.rank_shift, 0 - a.file_shift)

\* C12 witness: Black on a1 with the shift (-7, -7) was given h8.
C12_Witness ==
    /\ MoveRelativeObserved
    /\ obs.arg = [self |-> Loc(0, 0), color |-> "Black", rank_shift |-> -7,
                  file_shift |-> -7]
    /\ obs.result.val = {Loc(7, 7)}

---------------------------------------------------------------------------
(* ReprSpec: from_repr then to_str, on board texts.                        *)

\* The 12 piece glyphs and the space.
Glyphs == <<"K", "Q", "R", "B", "N", "P", "k", "q", "r", "b", "n", "p", " ">>

\* The largest stride of the full-board texts below.
MaxStride == 3

\* The text with glyph g at index k and spaces elsewhere.
OneGlyph(k, g) == [i \in 1..64 |-> IF i = k + 1 THEN g ELSE " "]

\* A text with a glyph on most squares: the glyphs in turn, every a-th one,
\* starting from the b-th.
Striped(a, b) == [i \in 1..64 |-> Glyphs[(((i - 1) * a + b) % 13) + 1]]

WellFormedTexts ==
    {OneGlyph(k, Glyphs[g]) : k \in 0..63, g \in 1..12}
      \cup {Striped(a, b) : a \in 1..MaxStride, b \in 0..12}
      \cup {DefaultRepr, TacticsRepr, EndgameRepr}

\* Texts from_repr rejects: 63 glyphs, 65 glyphs, a glyph of no piece.
IllFormedTexts ==
    {SubSeq(DefaultRepr, 1, 63), DefaultRepr \o <<" ">>, OneGlyph(9, "x")}

NextRepr ==
    \/ (pc = "new" /\ \E repr \in WellFormedTexts \cup IllFormedTexts : FromRepr(repr))
    \/ ToStr

ReprSpec == Init /\ [][NextRepr]_vars

WellFormed(s) ==
    /\ Len(s) = 64
    /\ \A i \in 1..64 : \E g \in 1..13 : s[i] = Glyphs[g]

\* C11: from_repr accepts every well-formed text s of 64 glyphs, and
\* to_str of the board it builds is 8 lines, rank 8 first, each the 8 glyphs
\* of that rank from file a to h with one space between files and a newline
\* at the end: the glyph rendered for rank r, file f is s[8*(7-r)+f].
C11_ReprRoundTrip ==
    (call.op = "from_repr" /\ WellFormed(call.arg)) =>
       /\ pc # "panicked"
       /\ obs.op = "to_str" =>
             LET text == obs.result.val
             IN  /\ Len(text) = 128
                 /\ \A r \in 0..7, f \in 0..7 :
                       LET at == 16 * (7 - r) + 2 * f
                       IN  /\ text[at + 1] = call.arg[8 * (7 - r) + f + 1]
                           /\ text[at + 2] = IF f < 7 THEN " " ELSE "\n"

\* C11 witness: a text with a glyph on 59 squares, a black rook first, was
\* built and written back.
C11_Witness ==
    /\ call.op = "from_repr"
    /\ call.arg = Striped(2, 8)
    /\ obs.op = "to_str"
    /\ obs.result.ok
    /\ Cardinality(DOMAIN pieces) = 59

---------------------------------------------------------------------------
(* The map and the pieces' own locations, under MoveSpec.                   *)

\* C13: on every board from_repr built and successful apply_move calls
\* changed, each piece of the map has its location field equal to its key:
\* get_piece finds it on the square it takes itself to be on, and every move
\* it generates starts from that square.
C13_LocationIsKey ==
    \A l \in DOMAIN pieces :
       /\ pieces[l].location = l
       /\ \A p \in get_piece(pieces, l) :
             LET moves == Piece_possible_moves(p, pieces)
             IN  \A i \in 1..Len(moves) : moves[i].from = l

\* C13 witness: the pawn created on h2 was moved twice, the second time off
\* its file, and has moves from where it stands.
C13_Witness ==
    /\ ApplyReturned
    /\ n_applied = 2
    /\ get_piece(pieces, call.arg.to) # {}
    /\ pieces[call.arg.to].id = Loc(1, 7)
    /\ call.arg.from = Loc(2, 7)
    /\ call.arg.to.file # 7
    /\ Piece_possible_moves(pieces[call.arg.to], pieces) # <<>>

---------------------------------------------------------------------------
(* The moves of a session, under Spec.                                      *)

\* The number of pieces of a color on a board.
CountOf(ps, color) == Cardinality({l \in DOMAIN ps : ps[l].color = color})

\* C14: in a session every move applied is one of possible_moves() of the
\* board it is applied to: it moves a piece of the side to move to another
\* square of the board that holds no piece of the mover's color, so the
\* mover keeps its pieces and the opponent loses at most 1; no step after
\* the board was built adds a piece, and a failed parse_pgn_move leaves the
\* board as it was.
C14_SessionMoves ==
    /\ [](call.op = "apply_move" =>
            LET move == call.arg
                mover == prev_to_move
                other == IF mover = "White" THEN "Black" ELSE "White"
                moves == possible_moves(prev_pieces, prev_to_move,
                                        KeysAscending(prev_pieces))
            IN  /\ panic # "No piece at"
                /\ \E i \in 1..Len(moves) : moves[i] = move
                /\ move.from \in DOMAIN prev_pieces
                /\ prev_pieces[move.from].color = mover
                /\ move.to \in Locations
                /\ move.to # move.from
                /\ \A q \in get_piece(prev_pieces, move.to) : q.color # mover
                /\ CountOf(pieces, mover) = CountOf(prev_pieces, mover)
                /\ CountOf(prev_pieces, other) - CountOf(pieces, other) \in {0, 1})
    /\ [][/\ pc # "new" => Cardinality(DOMAIN pieces') <= Cardinality(DOMAIN pieces)
          /\ (obs'.op = "parse_pgn_move" /\ pc' = "panicked") =>
                (pieces' = pieces /\ to_move' = to_move)]_vars

\* C14 witness: from Board::default() three moves were applied, the third a
\* capture by White.
C14_Witness ==
    /\ call.op = "apply_move"
    /\ n_applied = 3
    /\ pc = "ready"
    /\ Cardinality(DOMAIN pieces) = 31
    /\ CountOf(pieces, "Black") = 15
    /\ call.arg.to \in DOMAIN prev_pieces

=============================================================================
